---- MODULE Spec2Model ----
(***************************************************************************)
(* ProcessScheduler: the SchedulingSolver orchestrator of                  *)
(* processscheduler/solver.py driving a z3 engine, together with the       *)
(* problem entities (tasks, workers, WorkLoad) that the tests of           *)
(* test/test_workload.py declare.                                          *)
(*                                                                         *)
(* z3 expressions are tuples whose first component is the operator; an     *)
(* engine model is a function from variable names to integers.             *)
(***************************************************************************)
EXTENDS Integers, Sequences, FiniteSets, TLC

VARIABLES
    problem,           \* SchedulingProblem: declared entities, _constraints
    todo,              \* WorkLoad declarations the script has still to make
    others,            \* arguments of the other SchedulingSolvers it has still to construct
    diversify,         \* the variables the script calls find_another_solution on
    problem_solution,  \* the Solution held by the problem (set_solution)
    solver,            \* self._solver: engine mode, assertions, objectives
    cfg,               \* verbosity / max_time / parallel of the orchestrator
    z3_options,        \* z3's process-wide options written by set_option
    current_solution,  \* self.current_solution
    excluded,          \* history: <<variable, value>> of each exclusion
    op,                \* last operation run
    ret,               \* its return value
    raised,            \* the exception it raised, "none" otherwise
    sat_result,        \* verdict of the engine's last check()
    calls              \* engine / problem primitives invoked by the last operation

vars == <<problem, todo, others, diversify, problem_solution, solver, cfg, z3_options,
          current_solution, excluded, op, ret, raised, sat_result, calls>>

\* Python's None, and a value that is present: a variable holds None or Some(v).
None == <<>>
Some(v) == <<v>>

\* ---------------------------------------------------------------- bounds
\* horizon of the generated problems
MaxHorizon == 3
\* largest task duration of the generated problems
MaxDuration == 2
\* largest work_amount of the generated problems
MaxWork == 3
\* number of find_another_solution calls that reach the engine
MaxExclusions == 2
\* how far below 0 and beyond the horizon the engine searches
Slack == 1

\* ------------------------------------------------------- z3 expressions
IntVal(n) == <<"int", n>>
Var(x) == <<"var", x>>
Add(a, b) == <<"+", a, b>>
Sub(a, b) == <<"-", a, b>>
Mul(a, b) == <<"*", a, b>>
Min2(a, b) == <<"min", a, b>>
Max2(a, b) == <<"max", a, b>>
\* z3.Sum: the Python integer 0 for an empty list
Sum(s) == IF s = <<>> THEN IntVal(0) ELSE <<"sum", s>>
Ge(a, b) == <<">=", a, b>>
Le(a, b) == <<"<=", a, b>>
Eq(a, b) == <<"==", a, b>>
Ne(a, b) == <<"!=", a, b>>
Or(s) == <<"or", s>>
And(s) == <<"and", s>>
\* z3.Bool(x), and z3.If over a Bool: as a constraint and as an integer term
BoolVar(x) == <<"bool", x>>
If(c, a, b) == <<"if", c, a, b>>
Ite(c, a, b) == <<"ite", c, a, b>>

RECURSIVE Eval(_, _)
RECURSIVE EvalSum(_, _)
RECURSIVE Holds(_, _)
EvalSum(s, m) == IF s = <<>> THEN 0 ELSE Eval(Head(s), m) + EvalSum(Tail(s), m)

Eval(e, m) ==
    CASE e[1] = "int" -> e[2]
      [] e[1] = "var" -> m[e[2]]
      [] e[1] = "+" -> Eval(e[2], m) + Eval(e[3], m)
      [] e[1] = "-" -> Eval(e[2], m) - Eval(e[3], m)
      [] e[1] = "*" -> Eval(e[2], m) * Eval(e[3], m)
      [] e[1] = "min" -> LET a == Eval(e[2], m)
                             b == Eval(e[3], m) IN IF a <= b THEN a ELSE b
      [] e[1] = "max" -> LET a == Eval(e[2], m)
                             b == Eval(e[3], m) IN IF a >= b THEN a ELSE b
      [] e[1] = "sum" -> EvalSum(e[2], m)
      [] e[1] = "ite" -> IF Holds(e[2], m) THEN Eval(e[3], m) ELSE Eval(e[4], m)

Holds(c, m) ==
    CASE c[1] = ">=" -> Eval(c[2], m) >= Eval(c[3], m)
      [] c[1] = "<=" -> Eval(c[2], m) <= Eval(c[3], m)
      [] c[1] = "==" -> Eval(c[2], m) = Eval(c[3], m)
      [] c[1] = "!=" -> Eval(c[2], m) # Eval(c[3], m)
      [] c[1] = "or" -> \E i \in 1..Len(c[2]) : Holds(c[2][i], m)
      [] c[1] = "and" -> \A i \in 1..Len(c[2]) : Holds(c[2][i], m)
      [] c[1] = "bool" -> m[c[2]]
      [] c[1] = "if" -> IF Holds(c[2], m) THEN Holds(c[3], m) ELSE Holds(c[4], m)

RECURSIVE VarsOfExpr(_)
RECURSIVE VarsOf(_)
VarsOfExpr(e) ==
    CASE e[1] = "int" -> {}
      [] e[1] = "var" -> {e[2]}
      [] e[1] = "sum" -> UNION {VarsOfExpr(e[2][i]) : i \in 1..Len(e[2])}
      [] e[1] = "ite" -> VarsOf(e[2]) \cup VarsOfExpr(e[3]) \cup VarsOfExpr(e[4])
      [] OTHER -> VarsOfExpr(e[2]) \cup VarsOfExpr(e[3])

VarsOf(c) ==
    CASE c[1] \in {"or", "and"} -> UNION {VarsOf(c[2][i]) : i \in 1..Len(c[2])}
      [] c[1] = "bool" -> {c[2]}
      [] c[1] = "if" -> VarsOf(c[2]) \cup VarsOf(c[3]) \cup VarsOf(c[4])
      [] OTHER -> VarsOfExpr(c[2]) \cup VarsOfExpr(c[3])

\* The Bool variables among the variables of a constraint or term.
RECURSIVE BoolsOf(_)
BoolsOf(c) ==
    CASE c[1] = "bool" -> {c[2]}
      [] c[1] \in {"int", "var"} -> {}
      [] c[1] \in {"or", "and", "sum"} -> UNION {BoolsOf(c[2][i]) : i \in 1..Len(c[2])}
      [] c[1] \in {"if", "ite"} -> BoolsOf(c[2]) \cup BoolsOf(c[3]) \cup BoolsOf(c[4])
      [] OTHER -> BoolsOf(c[2]) \cup BoolsOf(c[3])

AllVars(assertions) == UNION {VarsOf(assertions[i]) : i \in 1..Len(assertions)}

AllBools(assertions) == UNION {BoolsOf(assertions[i]) : i \in 1..Len(assertions)}

Range(s) == {s[i] : i \in 1..Len(s)}

RECURSIVE Flatten(_)
Flatten(ss) == IF ss = <<>> THEN <<>> ELSE Head(ss) \o Flatten(Tail(ss))

\* ------------------------------------------------------------ the engine
\* The integers the engine's search ranges over for variable v: z3 searches
\* all of Int; the search here stops Slack beyond the problem's time range
\* (FlowTime is a sum of one end per task, so its range is that many times wider).
VarDomain(v) ==
    LET n == IF v = "FlowTime" /\ Len(problem.tasks) > 1 THEN Len(problem.tasks) ELSE 1
    IN  (0 - n * Slack)..(n * (problem.horizon + Slack))

\* The next variable to assign: one that makes some assertion decidable, if any.
NextVar(left, done, VS) ==
    IF \E v \in left : \E i \in DOMAIN VS : v \in VS[i] /\ VS[i] \subseteq done \cup {v}
    THEN CHOOSE v \in left : \E i \in DOMAIN VS : v \in VS[i] /\ VS[i] \subseteq done \cup {v}
    ELSE CHOOSE v \in left : TRUE

\* Backtracking search: the assignments of done \cup left that extend one of
\* partials and satisfy every assertion of A.
RECURSIVE Extend(_, _, _, _, _)
Extend(partials, left, done, A, VS) ==
    IF left = {} \/ partials = {}
    THEN partials
    ELSE LET v == NextVar(left, done, VS)
             now == done \cup {v}
             due == {i \in DOMAIN VS : v \in VS[i] /\ VS[i] \subseteq now}
             values == IF v \in AllBools(A) THEN BOOLEAN ELSE VarDomain(v)
             grown == {[x \in now |-> IF x = v THEN pd[2] ELSE pd[1][x]] :
                          pd \in partials \X values}
         IN  Extend({q \in grown : \A i \in due : Holds(A[i], q)},
                    left \ {v}, now, A, VS)

\* Every assignment of the variables of A that satisfies all of A.
SatModels(A) ==
    LET VS == [i \in 1..Len(A) |-> VarsOf(A[i])]
    IN  IF \E i \in 1..Len(A) : VS[i] = {} /\ ~Holds(A[i], <<>>)
        THEN {}
        ELSE Extend({<<>>}, AllVars(A), {}, A, VS)

\* Optimize: objectives are optimised in the order they were added (z3's
\* default lexicographic priority).
RECURSIVE Optimal(_, _)
Optimal(S, objs) ==
    IF objs = <<>> \/ S = {}
    THEN S
    ELSE LET o == Head(objs)
             best == {m \in S : \A n \in S :
                        IF o[1] = "minimize"
                        THEN Eval(o[2], m) <= Eval(o[2], n)
                        ELSE Eval(o[2], m) >= Eval(o[2], n)}
         IN  Optimal(best, Tail(objs))

\* The models model() can return after check() said sat; sat is the set of
\* satisfying assignments of the engine's assertions.
EngineModels(s, sat) ==
    IF s.mode = "Optimize" THEN Optimal(sat, s.objectives) ELSE sat

\* The verdicts check() can return: the timeout may strike on any check.
Verdicts(sat) == {"unknown"} \cup (IF sat = {} THEN {"unsat"} ELSE {"sat"})

\* z3's options before any set_option; timeout 0 stands for z3's "no limit".
Z3Defaults ==
    [verbose |-> 0, timeout |-> 0, parallel_enable |-> FALSE,
     parallel_threads_max |-> 10000]

\* No engine yet. params are the process-wide options as they were when the
\* engine was created.
NoSolver ==
    [mode |-> "none", assertions |-> <<>>, objectives |-> <<>>, params |-> Z3Defaults]

\* ----------------------------------------------------- problem entities
\* FixedDurationTask: start and end are the names of its two engine variables.
Task(name, duration, lb, ub, work, resources) ==
    [name |-> name, start |-> name \o "_start", end |-> name \o "_end",
     duration |-> duration, lower_bounded |-> lb, upper_bounded |-> ub,
     work_amount |-> work, required_resources |-> resources, selection |-> <<>>]

\* Worker: a resource that does one task at a time.
Worker(name, productivity) ==
    [name |-> name, productivity |-> productivity, size |-> 1]

\* CumulativeWorker: a resource that does up to size tasks at a time.
CumulativeWorker(name, size) == [name |-> name, productivity |-> 1, size |-> size]

\* SelectWorkers: exactly / at least / at most nb_workers_to_select of the
\* listed workers are assigned to the task that requires the group.
SelectWorkers(list_of_workers, nb_workers_to_select, kind) ==
    [list_of_workers |-> list_of_workers,
     nb_workers_to_select |-> nb_workers_to_select, kind |-> kind]

\* task.add_required_resource(SelectWorkers(...)): every candidate joins the
\* task's resources, the group its selections.
add_required_resource(task, select) ==
    [task EXCEPT !.required_resources = @ \o select.list_of_workers,
                 !.selection = Append(@, select)]

\* Whether the worker named r is a candidate of one of the task's selections.
IsCandidate(task, r) ==
    \E i \in 1..Len(task.selection) : r \in Range(task.selection[i].list_of_workers)

\* The Bool that tells whether candidate r is assigned to the task.
Selected(task, r) == "Selected_" \o task.name \o "_" \o r

\* The two Ints of candidate r's interval for the task.
MaybeBusy(task, r) ==
    <<Var(r \o "_maybe_busy_" \o task.name \o "_start"),
      Var(r \o "_maybe_busy_" \o task.name \o "_end")>>

\* problem.horizon is the engine variable below; a fixed horizon is one of
\* the problem's constraints.
Horizon == Var("horizon")

SchedulingProblem(horizon, tasks, resources, objectives, constraints) ==
    [horizon |-> horizon, tasks |-> tasks, resources |-> resources,
     objectives |-> objectives, workloads |-> <<>>,
     constraints |-> <<Eq(Horizon, IntVal(horizon))>> \o constraints]

\* The comparison a kind (exact, min, max) asserts between a total and a bound.
KindCompare(kind, total, bound) ==
    IF kind = "exact" THEN Eq(total, IntVal(bound))
    ELSE IF kind = "min" THEN Ge(total, IntVal(bound))
    ELSE Le(total, IntVal(bound))

\* The assertions of one selection of a task: a selected candidate is busy
\* for the task's interval, an unselected one for an empty interval before
\* time 0; the number of selected candidates obeys the group's bound.
SelectAssertions(task, select) ==
    LET ws == select.list_of_workers
    IN  [j \in 1..Len(ws) |->
            LET busy == MaybeBusy(task, ws[j])
            IN  If(BoolVar(Selected(task, ws[j])),
                   And(<<Eq(busy[1], Var(task.start)), Eq(busy[2], Var(task.end))>>),
                   And(<<Eq(busy[1], IntVal(-1)), Eq(busy[2], busy[1])>>))]
        \o <<KindCompare(select.kind,
                          Sum([j \in 1..Len(ws) |->
                                  Ite(BoolVar(Selected(task, ws[j])), IntVal(1), IntVal(0))]),
                          select.nb_workers_to_select)>>

\* task.get_assertions(): the duration / end relation, then its selections.
TaskAssertions(task) ==
    <<Eq(Add(Var(task.start), IntVal(task.duration)), Var(task.end))>>
    \o Flatten([i \in 1..Len(task.selection) |->
                    SelectAssertions(task, task.selection[i])])

\* resource.busy_intervals[task]: a required resource is busy from the task's
\* start to its end, a candidate of a selection for its own interval.
BusyInterval(resource, task) ==
    IF IsCandidate(task, resource.name)
    THEN MaybeBusy(task, resource.name)
    ELSE <<Var(task.start), Var(task.end)>>

\* The tasks of p that require the resource named r, in declaration order.
TasksOn(p, r) ==
    SelectSeq(p.tasks, LAMBDA t : r \in Range(t.required_resources))

ResourceNamed(p, r) == CHOOSE w \in Range(p.resources) : w.name = r

\* All <<i, j>> with 1 <= i < j <= n, in lexicographic order.
PairSeq(n) ==
    SelectSeq([k \in 1..(n * n) |-> <<((k - 1) \div n) + 1, ((k - 1) % n) + 1>>],
              LAMBDA ij : ij[1] < ij[2])

\* A set as a sequence, in the order TLC enumerates it.
RECURSIVE SeqOf(_)
SeqOf(S) ==
    IF S = {} THEN <<>>
    ELSE LET x == CHOOSE x \in S : TRUE IN <<x>> \o SeqOf(S \ {x})

\* ress.get_assertions(): a Worker does one task at a time; of any size + 1
\* tasks of a CumulativeWorker two do not overlap.
ResourceAssertions(p, ress) ==
    LET ts == TasksOn(p, ress.name)
        ps == PairSeq(Len(ts))
        Disjoint(a, b) == Or(<<Le(BusyInterval(ress, a)[2], BusyInterval(ress, b)[1]),
                               Le(BusyInterval(ress, b)[2], BusyInterval(ress, a)[1])>>)
        groups == SeqOf({g \in SUBSET (1..Len(ts)) : Cardinality(g) = ress.size + 1})
    IN  IF ress.size = 1
        THEN [k \in 1..Len(ps) |-> Disjoint(ts[ps[k][1]], ts[ps[k][2]])]
        ELSE [k \in 1..Len(groups) |->
                LET within == SelectSeq(ps, LAMBDA ij : ij[1] \in groups[k]
                                                        /\ ij[2] \in groups[k])
                IN  Or([i \in 1..Len(within) |->
                           Disjoint(ts[within[i][1]], ts[within[i][2]])])]

\* ------------------------------------------------------------- WorkLoad
WorkLoadKinds == {"exact", "min", "max"}

WorkLoadDecl(resource, lo, hi, bound, kind) ==
    [resource |-> resource, intervals |-> <<<<lo, hi, bound>>>>, kind |-> kind]

\* Length of the part of the busy interval that lies within (lo, hi), never negative.
Overlap(busy, lo, hi) ==
    Max2(IntVal(0), Sub(Min2(busy[2], IntVal(hi)), Max2(busy[1], IntVal(lo))))

\* The comparison a kind asserts between the summed overlap and the bound.
WorkLoadCompare(kind, total, bound) == KindCompare(kind, total, bound)

\* A WorkLoad that counts the overlap of the resource's first task only.
WorkLoadAssertionsFirstTask(p, wl) ==
    LET ts == TasksOn(p, wl.resource)
        ress == ResourceNamed(p, wl.resource)
    IN  [k \in 1..Len(wl.intervals) |->
            WorkLoadCompare(wl.kind,
                Overlap(BusyInterval(ress, ts[1]),
                        wl.intervals[k][1], wl.intervals[k][2]),
                wl.intervals[k][3])]

\* The assertions of a WorkLoad: one per entry of its interval dictionary.
WorkLoadAssertions(p, wl) ==
    LET ts == TasksOn(p, wl.resource)
        ress == ResourceNamed(p, wl.resource)
    IN  [k \in 1..Len(wl.intervals) |->
            WorkLoadCompare(wl.kind,
                Sum([j \in 1..Len(ts) |->
                        Overlap(BusyInterval(ress, ts[j]),
                                wl.intervals[k][1], wl.intervals[k][2])]),
                wl.intervals[k][3])]

\* A WorkLoad that does not validate its kind.
WorkLoadErrorAnyKind(p, wl) ==
    IF TasksOn(p, wl.resource) = <<>> THEN "AssertionError" ELSE "none"

\* What constructing the WorkLoad raises: the kind is validated first, then
\* that the resource is assigned to some task.
WorkLoadError(p, wl) ==
    IF wl.kind \notin WorkLoadKinds THEN "ValueError"
    ELSE IF TasksOn(p, wl.resource) = <<>> THEN "AssertionError"
    ELSE "none"

\* problem.set_solution(model): the Solution, one entry per task.
set_solution(p, m) ==
    [n \in {p.tasks[i].name : i \in 1..Len(p.tasks)} |->
        LET t == CHOOSE t \in Range(p.tasks) : t.name = n
        IN  [start |-> m[t.start], end |-> m[t.end],
             assigned_resources |->
                SelectSeq(t.required_resources,
                          LAMBDA r : IsCandidate(t, r) =>
                                        /\ Selected(t, r) \in DOMAIN m
                                        /\ m[Selected(t, r)])]]

\* ------------------------------------------------- SchedulingSolver.__init__
Adds(cs) == [i \in 1..Len(cs) |-> <<"add", cs[i]>>]

\* A constructor that always creates the plain decision engine.
SolverModePlain(objectives) == "SolverFor"

\* The engine created for the problem's objectives.
SolverMode(objectives) == IF Len(objectives) > 0 THEN "Optimize" ELSE "SolverFor"

\* set_option calls made before the engine is created.
OptionCalls(c) ==
    (IF c.verbosity THEN <<<<"set_option", "verbose", 2>>>> ELSE <<>>)
    \o <<<<"set_option", "timeout", c.max_time * 1000>>>>

\* set_option calls made after the engine is created.
ParallelCalls(c) ==
    IF c.parallel
    THEN <<<<"set_option", "parallel.enable", TRUE>>,
           <<"set_option", "parallel.threads.max", 4>>>>
    ELSE <<>>

\* Default bounds with the two flags read the wrong way round.
TaskBoundsFlipped(task) ==
    <<Ge(Var(task.end), IntVal(0))>>
    \o (IF task.lower_bounded THEN <<Ge(Var(task.start), IntVal(0))>> ELSE <<>>)
    \o (IF task.upper_bounded THEN <<Le(Var(task.end), Horizon)>> ELSE <<>>)

\* The default bounds of a task.
TaskBounds(task) ==
    <<Ge(Var(task.end), IntVal(0))>>
    \o (IF ~task.lower_bounded THEN <<Ge(Var(task.start), IntVal(0))>> ELSE <<>>)
    \o (IF ~task.upper_bounded THEN <<Le(Var(task.end), Horizon)>> ELSE <<>>)

\* A task loop that stages only the first of each task's own assertions.
TaskCallsFirstOnly(p) ==
    Flatten([i \in 1..Len(p.tasks) |->
                Adds(<<Head(TaskAssertions(p.tasks[i]))>> \o TaskBounds(p.tasks[i]))])

\* The task loop: each task's own assertions, then its default bounds.
TaskCalls(p) ==
    Flatten([i \in 1..Len(p.tasks) |->
                Adds(TaskAssertions(p.tasks[i]) \o TaskBounds(p.tasks[i]))])

\* A constructor that leaves out the last of the problem's constraints.
ConstraintCallsButLast(p) == Adds(SubSeq(p.constraints, 1, Len(p.constraints) - 1))

\* A constructor that stages only the last of the problem's constraints.
ConstraintCallsLastOnly(p) == Adds(<<p.constraints[Len(p.constraints)]>>)

\* The problem's own constraints, passed through.
ConstraintCalls(p) == Adds(p.constraints)

ResourceCalls(p) ==
    Flatten([i \in 1..Len(p.resources) |-> Adds(ResourceAssertions(p, p.resources[i]))])

\* A work-amount assertion that bounds the work from above.
WorkAmountAtMost(p, task) ==
    LET rr == task.required_resources
    IN  Le(Sum([j \in 1..Len(rr) |->
                   LET ress == ResourceNamed(p, rr[j])
                       busy == BusyInterval(ress, task)
                   IN  Mul(IntVal(ress.productivity), Sub(busy[2], busy[1]))]),
           IntVal(task.work_amount))

\* The work-amount assertion of one task.
WorkAmount(p, task) ==
    LET rr == task.required_resources
    IN  Ge(Sum([j \in 1..Len(rr) |->
                   LET ress == ResourceNamed(p, rr[j])
                       busy == BusyInterval(ress, task)
                   IN  Mul(IntVal(ress.productivity), Sub(busy[2], busy[1]))]),
           IntVal(task.work_amount))

\* process_work_amount that passes over a task without resources.
process_work_amount_skip_empty(p) ==
    Flatten([i \in 1..Len(p.tasks) |->
                IF p.tasks[i].work_amount > 0 /\ p.tasks[i].required_resources # <<>>
                THEN Adds(<<WorkAmount(p, p.tasks[i])>>)
                ELSE <<>>])

process_work_amount(p) ==
    Flatten([i \in 1..Len(p.tasks) |->
                IF p.tasks[i].work_amount > 0
                THEN Adds(<<WorkAmount(p, p.tasks[i])>>)
                ELSE <<>>])

\* Objectives whose LATEST / EARLIEST target only bounds the starts.
ObjectiveCallsUnattained(p, obj) ==
    LET n == Len(p.tasks)
        mini == Var("SmallestStartTime")
        flowtime == Var("FlowTime")
        maxi == Var("GreatestStartTime")
    IN  CASE obj = "MAKESPAN" -> <<<<"minimize", Horizon>>>>
          [] obj = "LATEST" ->
                Adds([i \in 1..n |-> Le(mini, Var(p.tasks[i].start))])
                \o <<<<"maximize", mini>>>>
          [] obj = "FLOWTIME" ->
                Adds(<<Eq(flowtime, Sum([i \in 1..n |-> Var(p.tasks[i].end)]))>>)
                \o <<<<"minimize", flowtime>>>>
          [] obj = "EARLIEST" ->
                Adds([i \in 1..n |-> Ge(maxi, Var(p.tasks[i].start))])
                \o <<<<"minimize", maxi>>>>
          [] OTHER -> <<>>

\* The engine calls of one objective.
ObjectiveCalls(p, obj) ==
    LET n == Len(p.tasks)
        mini == Var("SmallestStartTime")
        flowtime == Var("FlowTime")
        maxi == Var("GreatestStartTime")
    IN  CASE obj = "MAKESPAN" -> <<<<"minimize", Horizon>>>>
          [] obj = "LATEST" ->
                Adds(<<Or([i \in 1..n |-> Eq(mini, Var(p.tasks[i].start))])>>)
                \o Adds([i \in 1..n |-> Le(mini, Var(p.tasks[i].start))])
                \o <<<<"maximize", mini>>>>
          [] obj = "FLOWTIME" ->
                Adds(<<Eq(flowtime, Sum([i \in 1..n |-> Var(p.tasks[i].end)]))>>)
                \o <<<<"minimize", flowtime>>>>
          [] obj = "EARLIEST" ->
                Adds(<<Or([i \in 1..n |-> Eq(maxi, Var(p.tasks[i].start))])>>)
                \o Adds([i \in 1..n |-> Ge(maxi, Var(p.tasks[i].start))])
                \o <<<<"minimize", maxi>>>>
          [] OTHER -> <<>>

create_objectives(p) ==
    Flatten([i \in 1..Len(p.objectives) |-> ObjectiveCalls(p, p.objectives[i])])

\* A constructor that passes the resources' assertions before the problem's
\* constraints.
InitCallsResourcesFirst(p, c) ==
    OptionCalls(c) \o <<<<SolverMode(p.objectives)>>>> \o ParallelCalls(c)
    \o TaskCalls(p) \o ResourceCalls(p) \o ConstraintCalls(p)
    \o process_work_amount(p) \o create_objectives(p)

\* Every call __init__ makes, in order.
InitCalls(p, c) ==
    OptionCalls(c) \o <<<<SolverMode(p.objectives)>>>> \o ParallelCalls(c)
    \o TaskCalls(p) \o ConstraintCalls(p) \o ResourceCalls(p)
    \o process_work_amount(p) \o create_objectives(p)

IsAdd(call) == call[1] = "add"
IsObjective(call) == call[1] \in {"minimize", "maximize"}
IsOption(call) == call[1] = "set_option"

Args(cs) == [i \in 1..Len(cs) |-> cs[i][2]]

\* z3's options after the set_option calls of cs.
RECURSIVE SetOptions(_, _)
SetOptions(o, cs) ==
    IF cs = <<>> THEN o
    ELSE LET c == Head(cs)
             o2 == CASE c[2] = "verbose" -> [o EXCEPT !.verbose = c[3]]
                     [] c[2] = "timeout" -> [o EXCEPT !.timeout = c[3]]
                     [] c[2] = "parallel.enable" -> [o EXCEPT !.parallel_enable = c[3]]
                     [] c[2] = "parallel.threads.max" ->
                            [o EXCEPT !.parallel_threads_max = c[3]]
         IN  SetOptions(o2, Tail(cs))

SolverInit ==
    /\ raised = "none"
    /\ solver.mode = "none"
    /\ todo = <<>>
    /\ LET cs == InitCalls(problem, cfg)
           mode == SolverMode(problem.objectives)
       IN  /\ solver' = [mode |-> mode,
                         assertions |-> Args(SelectSeq(cs, IsAdd)),
                         objectives |-> SelectSeq(cs, IsObjective),
                         params |-> SetOptions(z3_options, OptionCalls(cfg))]
           /\ z3_options' = SetOptions(z3_options, SelectSeq(cs, IsOption))
           \* minimize / maximize exist on Optimize only
           /\ raised' = IF mode # "Optimize" /\ SelectSeq(cs, IsObjective) # <<>>
                        THEN "AttributeError" ELSE "none"
           /\ calls' = cs
    /\ current_solution' = None
    /\ op' = "__init__"
    /\ ret' = None
    /\ UNCHANGED <<problem, todo, others, diversify, problem_solution, cfg, excluded, sat_result>>

\* ------------------------------------------------------------ check_sat
\* check_sat that forgets the inconclusive verdict.
CheckSatResultUnsatOnly(verdict) == verdict # "unsat"

\* What check_sat returns for the engine's verdict.
CheckSatResult(verdict) == verdict \notin {"unsat", "unknown"}

\* check_sat that asks for the reason whatever the verdict.
CheckSatCallsReasonAlways(verdict) ==
    <<<<"check">>>>
    \o (IF cfg.verbosity THEN <<<<"assertions">>>> ELSE <<>>)
    \o <<<<"reason_unknown">>>>

\* The engine primitives check_sat invokes.
CheckSatCalls(verdict) ==
    <<<<"check">>>>
    \o (IF cfg.verbosity THEN <<<<"assertions">>>> ELSE <<>>)
    \o (IF verdict = "unknown" THEN <<<<"reason_unknown">>>> ELSE <<>>)

check_sat ==
    /\ raised = "none"
    /\ solver.mode # "none"
    /\ \E verdict \in Verdicts(SatModels(solver.assertions)) :
          /\ sat_result' = verdict
          /\ ret' = Some(CheckSatResult(verdict))
          /\ calls' = CheckSatCalls(verdict)
    /\ op' = "check_sat"
    /\ UNCHANGED <<problem, todo, others, diversify, problem_solution, solver, cfg, z3_options,
                   current_solution, excluded, raised>>

\* ---------------------------------------------------------------- solve
\* solve that keeps the model to itself.
SolveCallsNoPropagation(verbosity) ==
    <<<<"model">>>> \o (IF verbosity THEN <<<<"statistics">>>> ELSE <<>>)

\* What solve invokes once check_sat returned true.
SolveCalls(verbosity) ==
    <<<<"model">>>>
    \o (IF verbosity THEN <<<<"statistics">>>> ELSE <<>>)
    \o <<<<"set_solution">>>>

\* The body of solve() run on engine s; pre are the calls the caller made
\* before it and excl the exclusion history it leaves.
DoSolve(s, name, pre, excl) ==
    /\ solver' = s
    /\ excluded' = excl
    /\ op' = name
    /\ UNCHANGED <<problem, todo, others, diversify, cfg, z3_options>>
    /\ LET sat == SatModels(s.assertions) IN
       \E verdict \in Verdicts(sat) :
          /\ sat_result' = verdict
          /\ IF ~CheckSatResult(verdict)
             THEN /\ ret' = Some(FALSE)
                  /\ raised' = "none"
                  /\ calls' = pre \o CheckSatCalls(verdict)
                  /\ UNCHANGED <<current_solution, problem_solution>>
             ELSE IF verdict # "sat"
             THEN \* model() without a sat check: "model is not available"
                  /\ ret' = None
                  /\ raised' = "Z3Exception"
                  /\ calls' = pre \o CheckSatCalls(verdict) \o <<<<"model">>>>
                  /\ UNCHANGED <<current_solution, problem_solution>>
             ELSE \E m \in EngineModels(s, sat) :
                  LET after == SolveCalls(cfg.verbosity)
                  IN  /\ ret' = Some(TRUE)
                      /\ raised' = "none"
                      /\ calls' = pre \o CheckSatCalls(verdict) \o after
                      /\ problem_solution' =
                            IF <<"set_solution">> \in Range(after)
                            THEN Some(set_solution(problem, m)) ELSE problem_solution
                      /\ current_solution' = Some(m)

solve ==
    /\ raised = "none"
    /\ solver.mode # "none"
    /\ DoSolve(solver, "solve", <<>>, excluded)

\* ------------------------------------------------ find_another_solution
\* find_another_solution without its guard.
NoCurrentSolutionUnchecked(cs) == FALSE

\* The guard of find_another_solution.
NoCurrentSolution(cs) == cs = None

\* An exclusion that pins the variable to its current value instead.
ExclusionPinned(variable, value) == Eq(Var(variable), IntVal(value))

\* An exclusion of the value 0 whatever the current value is.
ExclusionOfZero(variable, value) == Ne(Var(variable), IntVal(0))

\* The constraint that excludes the current value of the variable.
Exclusion(variable, value) == Ne(Var(variable), IntVal(value))

find_another_solution(variable) ==
    /\ raised = "none"
    /\ solver.mode # "none"
    /\ IF NoCurrentSolution(current_solution)
       THEN /\ op' = "find_another_solution"
            /\ ret' = Some(FALSE)
            /\ calls' = <<<<"warn">>>>
            /\ UNCHANGED <<problem, todo, others, diversify, problem_solution, solver, cfg, z3_options,
                           current_solution, excluded, raised, sat_result>>
       ELSE IF current_solution = None \/ variable \notin DOMAIN current_solution[1]
       THEN \* None[variable] / None.as_long()
            /\ op' = "find_another_solution"
            /\ ret' = None
            /\ raised' = IF current_solution = None THEN "TypeError" ELSE "AttributeError"
            /\ calls' = <<>>
            /\ UNCHANGED <<problem, todo, others, diversify, problem_solution, solver, cfg, z3_options,
                           current_solution, excluded, sat_result>>
       ELSE LET current_variable_value == current_solution[1][variable]
                c == Exclusion(variable, current_variable_value)
            IN  /\ Len(excluded) < MaxExclusions
                /\ DoSolve([solver EXCEPT !.assertions = Append(@, c)],
                           "find_another_solution", <<<<"add", c>>>>,
                           Append(excluded, <<variable, current_variable_value>>))

\* -------------------------------------------------------- export_to_smt2
export_to_smt2 ==
    /\ raised = "none"
    /\ solver.mode # "none"
    /\ op' = "export_to_smt2"
    /\ ret' = None
    /\ calls' = <<<<"to_smt2">>, <<"write", solver.assertions>>>>
    /\ UNCHANGED <<problem, todo, others, diversify, problem_solution, solver, cfg, z3_options,
                   current_solution, excluded, raised, sat_result>>

\* ------------------------------------------------------ WorkLoad(...)
\* The script constructs its next WorkLoad; a valid one joins the problem's
\* constraints.
WorkLoad ==
    /\ raised = "none"
    /\ solver.mode = "none"
    /\ todo # <<>>
    /\ LET wl == Head(todo)
           err == WorkLoadError(problem, wl)
       IN  /\ raised' = err
           /\ problem' = IF err = "none"
                         THEN [problem EXCEPT
                                 !.workloads = Append(@, wl),
                                 !.constraints = @ \o WorkLoadAssertions(problem, wl)]
                         ELSE problem
           /\ calls' = <<<<"WorkLoad", wl>>>>
    /\ todo' = Tail(todo)
    /\ op' = "WorkLoad"
    /\ ret' = None
    /\ UNCHANGED <<others, diversify, problem_solution, solver, cfg, z3_options,
                   current_solution, excluded, sat_result>>

\* ------------------------------------- SchedulingSolver(...) once more
\* The script constructs another SchedulingSolver, on a problem of its own:
\* what it shares with the first one is z3's process-wide options.
OtherSolverInit ==
    /\ raised = "none"
    /\ others # <<>>
    /\ LET cs == OptionCalls(Head(others)) \o ParallelCalls(Head(others))
       IN  /\ z3_options' = SetOptions(z3_options, cs)
           /\ calls' = cs
    /\ others' = Tail(others)
    /\ op' = "other.__init__"
    /\ ret' = None
    /\ UNCHANGED <<problem, todo, diversify, problem_solution, solver, cfg,
                   current_solution, excluded, raised, sat_result>>

\* ------------------------------------------------------------ scenarios
DefaultCfg == [verbosity |-> FALSE, max_time |-> 60, parallel |-> FALSE]
LoudCfg == [verbosity |-> TRUE, max_time |-> 1, parallel |-> TRUE]

\* A script: the problem it declares, the WorkLoads it then constructs, the
\* arguments it gives SchedulingSolver and the variables it diversifies on.
Scenario(p, wls, c, dv) ==
    [problem |-> p, todo |-> wls, cfg |-> c, diversify |-> dv, others |-> <<>>]

W1 == Worker("Worker1", 1)

\* One task, every combination of the bound flags; "x" is an Int that is no
\* part of the problem.
BoundScenarios ==
    {Scenario(SchedulingProblem(MaxHorizon,
                                <<Task("task1", MaxDuration, lb, ub, 0, <<>>)>>,
                                <<>>, <<>>, <<>>),
              <<>>, DefaultCfg, {"task1_start", "x"}) :
        lb \in BOOLEAN, ub \in BOOLEAN}

\* One task with a work amount, on no, one or two workers.
WorkScenarios ==
    {Scenario(SchedulingProblem(MaxHorizon,
                                <<Task("task1", MaxDuration, FALSE, FALSE, w, rr)>>,
                                <<W1, Worker("Worker2", 2)>>, <<>>, <<>>),
              <<>>, DefaultCfg, {"task1_start"}) :
        w \in 0..MaxWork,
        rr \in {<<>>, <<"Worker1">>, <<"Worker1", "Worker2">>}}

\* Two tasks sharing a worker, with objectives.
ObjectiveLists ==
    {<<"MAKESPAN">>, <<"LATEST">>, <<"FLOWTIME">>, <<"EARLIEST">>,
     <<"LATEST", "FLOWTIME">>, <<"EARLIEST", "MAKESPAN">>}

ObjectiveScenarios ==
    {Scenario(SchedulingProblem(MaxHorizon,
                                <<Task("task1", 1, FALSE, FALSE, 0, <<"Worker1">>),
                                  Task("task2", 1, FALSE, FALSE, 0, <<"Worker1">>)>>,
                                <<W1>>, objs, <<>>),
              <<>>, IF Len(objs) = 1 THEN LoudCfg ELSE DefaultCfg,
              {"task1_start", "horizon"}) :
        objs \in ObjectiveLists}

\* One task on a worker with a WorkLoad of any kind, valid or not.
WorkLoadScenarios ==
    {Scenario(SchedulingProblem(MaxHorizon,
                                <<Task("task1", MaxDuration, FALSE, FALSE, 0,
                                       <<"Worker1">>)>>,
                                <<W1>>, <<>>, <<>>),
              <<WorkLoadDecl("Worker1", lo, lo + 2, b, k)>>, DefaultCfg,
              {"task1_start"}) :
        lo \in 0..1, b \in 0..2,
        k \in WorkLoadKinds \cup {"foo"}}

\* The scenarios of test_workload.py on one task.
TestScenario(horizon, duration, rr, lo, hi, bound, kind) ==
    Scenario(SchedulingProblem(horizon,
                               <<Task("task1", duration, FALSE, FALSE, 0, rr)>>,
                               <<W1>>, <<>>, <<>>),
             <<WorkLoadDecl("Worker1", lo, hi, bound, kind)>>, DefaultCfg, {})

TestScenarios ==
    {TestScenario(12, 8, <<"Worker1">>, 0, 6, 2, "max"),
     TestScenario(12, 7, <<"Worker1">>, 0, 6, 3, "exact"),
     TestScenario(20, 7, <<"Worker1">>, 6, 8, 2, "min"),
     TestScenario(12, 1, <<>>, 0, 6, 2, "foo"),
     TestScenario(10, 1, <<>>, 3, 8, 0, "max")}

\* A task that selects at least one of two workers, one of them under a max
\* WorkLoad: test_selectworker_work_load_1, and its like on the small horizon.
SelectScenario(horizon, duration, blocked, lo, hi, bound) ==
    Scenario(SchedulingProblem(horizon,
                               <<add_required_resource(
                                    Task("task1", duration, FALSE, FALSE, 0, <<>>),
                                    SelectWorkers(<<"Worker1", "Worker2">>, 1, "min"))>>,
                               <<W1, Worker("Worker2", 1)>>, <<>>, <<>>),
             <<WorkLoadDecl(blocked, lo, hi, bound, "max")>>, DefaultCfg, {})

SelectScenarios ==
    {SelectScenario(12, 10, "Worker1", 4, 8, 0)}
    \cup {SelectScenario(MaxHorizon, MaxDuration, blocked, 1, 2, b) :
              blocked \in {"Worker1", "Worker2"}, b \in 0..1}

\* One task on two workers, each worker under its own WorkLoad:
\* test_multiple_workers_work_load_1 (kind min) and _2 (kind exact).
MultipleWorkersScenario(kind) ==
    Scenario(SchedulingProblem(12,
                               <<Task("task1", 10, FALSE, FALSE, 0,
                                      <<"Worker1", "Worker2">>)>>,
                               <<W1, Worker("Worker2", 1)>>, <<>>, <<>>),
             <<WorkLoadDecl("Worker1", 0, 4, 2, "max"),
               WorkLoadDecl("Worker2", 2, 6, 2, kind)>>, DefaultCfg, {})

MultipleWorkersScenarios == {MultipleWorkersScenario(kind) : kind \in {"min", "exact"}}

\* Two duration-4 tasks on one resource with an interval of bound 0:
\* test_resource_work_load_3 (a Worker) and
\* test_cumulative_resource_work_load_1 (a CumulativeWorker of size 2).
UnavailabilityScenario(resource, lo, hi) ==
    Scenario(SchedulingProblem(12,
                               <<Task("task1", 4, FALSE, FALSE, 0, <<"Worker1">>),
                                 Task("task2", 4, FALSE, FALSE, 0, <<"Worker1">>)>>,
                               <<resource>>, <<>>, <<>>),
             <<WorkLoadDecl("Worker1", lo, hi, 0, "max")>>, DefaultCfg, {})

UnavailabilityScenarios ==
    {UnavailabilityScenario(W1, 4, 8),
     UnavailabilityScenario(CumulativeWorker("Worker1", 2), 3, 8)}

\* A single task with the objective LATEST or EARLIEST.
SingleTaskObjectiveScenarios ==
    {Scenario(SchedulingProblem(MaxHorizon,
                                <<Task("task1", MaxDuration, FALSE, FALSE, 0, <<>>)>>,
                                <<>>, <<obj>>, <<>>),
              <<>>, DefaultCfg, {}) :
        obj \in {"LATEST", "EARLIEST"}}

\* Two tasks sharing a worker, one with a work amount, under a WorkLoad and
\* an objective: a problem with something to stage at every step of __init__.
EveryStepScenarios ==
    {Scenario(SchedulingProblem(MaxHorizon,
                                <<Task("task1", 1, FALSE, FALSE, 1, <<"Worker1">>),
                                  Task("task2", 1, FALSE, FALSE, 0, <<"Worker1">>)>>,
                                <<W1>>, objs, <<>>),
              <<WorkLoadDecl("Worker1", 0, 2, 1, "min")>>, DefaultCfg, {}) :
        objs \in {<<"LATEST", "MAKESPAN">>, <<"FLOWTIME", "EARLIEST">>}}

\* A script with two SchedulingSolvers: the one followed here, and another
\* that it constructs at some point with other arguments.
TwoSolverScenarios ==
    {[Scenario(SchedulingProblem(MaxHorizon,
                                 <<Task("task1", MaxDuration, FALSE, FALSE, 0, <<>>)>>,
                                 <<>>, <<>>, <<>>),
               <<>>, c, {})
        EXCEPT !.others = <<IF c = DefaultCfg THEN LoudCfg ELSE DefaultCfg>>] :
        c \in {DefaultCfg, LoudCfg}}

Scenarios ==
    BoundScenarios \cup WorkScenarios \cup ObjectiveScenarios
        \cup WorkLoadScenarios \cup TestScenarios \cup SelectScenarios
        \cup MultipleWorkersScenarios \cup UnavailabilityScenarios
        \cup SingleTaskObjectiveScenarios \cup EveryStepScenarios
        \cup TwoSolverScenarios

Init ==
    \E sc \in Scenarios :
        /\ problem = sc.problem
        /\ todo = sc.todo
        /\ others = sc.others
        /\ cfg = sc.cfg
        /\ diversify = sc.diversify
    /\ problem_solution = None
    /\ solver = NoSolver
    /\ z3_options = Z3Defaults
    /\ current_solution = None
    /\ excluded = <<>>
    /\ op = "none"
    /\ ret = None
    /\ raised = "none"
    /\ sat_result = "none"
    /\ calls = <<>>

Next ==
    \/ WorkLoad
    \/ SolverInit
    \/ OtherSolverInit
    \/ check_sat
    \/ solve
    \/ \E variable \in diversify : find_another_solution(variable)
    \/ export_to_smt2

Spec == Init /\ [][Next]_vars

\* ================================================================ claims
SolveOps == {"solve", "find_another_solution"}

Count(cs, f) == Cardinality({i \in 1..Len(cs) : cs[i][1] = f})

Staged(c) == \E i \in 1..Len(solver.assertions) : solver.assertions[i] = c

TaskNames == {problem.tasks[i].name : i \in 1..Len(problem.tasks)}

\* C1: whenever find_another_solution(v) returns true, the value of v in the
\* model it retained differs from every value of v that this call or an
\* earlier find_another_solution(v) call excluded.
C1_ExcludedValuesNeverReturned ==
    (op = "find_another_solution" /\ ret = Some(TRUE)) =>
        LET v == excluded[Len(excluded)][1]
        IN  \A i \in 1..Len(excluded) :
                excluded[i][1] = v => current_solution[1][v] # excluded[i][2]

\* C1 witness: a second exclusion of the same variable returned a new model.
C1_Witness ==
    /\ op = "find_another_solution"
    /\ ret = Some(TRUE)
    /\ Len(excluded) = 2
    /\ excluded[1][1] = excluded[2][1]
    /\ excluded[1][2] # excluded[2][2]

\* C2: find_another_solution called while current_solution is unset returns
\* false, raises nothing, adds no constraint, invokes neither check nor
\* set_solution, and leaves current_solution unset.
C2_NoSolutionNoEffect ==
    [][(op' = "find_another_solution" /\ current_solution = None) =>
          /\ ret' = Some(FALSE)
          /\ raised' = "none"
          /\ solver' = solver
          /\ excluded' = excluded
          /\ Count(calls', "add") = 0
          /\ Count(calls', "check") = 0
          /\ Count(calls', "set_solution") = 0
          /\ current_solution' = None
          /\ problem_solution' = problem_solution]_vars

\* C2 witness: the call was made after a solve that failed, so a check had
\* already run but no model was ever retained.
C2_Witness ==
    /\ op = "find_another_solution"
    /\ calls = <<<<"warn">>>>
    /\ ret = Some(FALSE)
    /\ current_solution = None
    /\ sat_result = "unsat"

C4_SolutionFromOneModel ==
    /\ op \in SolveOps =>
          Count(calls, "set_solution") = (IF ret = Some(TRUE) THEN 1 ELSE 0)
    /\ problem_solution # None =>
          /\ current_solution # None
          /\ DOMAIN problem_solution[1] = TaskNames
          /\ \A i \in 1..Len(problem.tasks) :
                LET t == problem.tasks[i]
                IN  /\ problem_solution[1][t.name].start = current_solution[1][t.start]
                    /\ problem_solution[1][t.name].end = current_solution[1][t.end]
          /\ \A i \in 1..(Len(solver.assertions) - Len(excluded)) :
                Holds(solver.assertions[i], current_solution[1])
    /\ (op \in SolveOps /\ ret = Some(TRUE)) =>
          /\ problem_solution # None
          /\ \A i \in 1..Len(solver.assertions) :
                Holds(solver.assertions[i], current_solution[1])

\* C4 witness: a successful re-solve replaced the Solution whose start it excluded.
C4_Witness ==
    /\ op = "find_another_solution"
    /\ ret = Some(TRUE)
    /\ excluded = <<<<"task1_start", 0>>>>
    /\ problem_solution # None
    /\ problem_solution[1]["task1"].start = 1

\* C5: a task with default bounds has end = start + duration, start >= 0 and
\* end <= horizon in every returned Solution; start >= 0 is staged exactly
\* when lower_bounded is false, end <= horizon exactly when upper_bounded is
\* false, and end >= 0 for every task.
C5_DefaultBounds ==
    /\ problem_solution # None =>
          \A i \in 1..Len(problem.tasks) :
              LET t == problem.tasks[i]
                  sol == problem_solution[1][t.name]
              IN  (~t.lower_bounded /\ ~t.upper_bounded) =>
                      /\ sol.end = sol.start + t.duration
                      /\ sol.start >= 0
                      /\ sol.end <= current_solution[1]["horizon"]
    /\ solver.mode # "none" =>
          \A i \in 1..Len(problem.tasks) :
              LET t == problem.tasks[i]
              IN  /\ Staged(<<">=", <<"var", t.end>>, <<"int", 0>>>>)
                  /\ Staged(<<">=", <<"var", t.start>>, <<"int", 0>>>>) <=> ~t.lower_bounded
                  /\ Staged(<<"<=", <<"var", t.end>>, <<"var", "horizon">>>>)
                        <=> ~t.upper_bounded

\* C5 witness: a Solution that puts a default task's end on the horizon, in a
\* problem whose other flags let a task start below 0.
C5_Witness ==
    /\ problem_solution # None
    /\ \E i \in 1..Len(problem.tasks) :
          LET t == problem.tasks[i]
          IN  /\ ~t.lower_bounded /\ ~t.upper_bounded
              /\ problem_solution[1][t.name].end = problem.horizon

RECURSIVE SumInts(_)
SumInts(ns) == IF ns = <<>> THEN 0 ELSE Head(ns) + SumInts(Tail(ns))

Smaller(a, b) == IF a <= b THEN a ELSE b
Larger(a, b) == IF a >= b THEN a ELSE b

\* Time the Solution keeps the resource named r busy within (lo, hi).
BusyWithin(r, lo, hi) ==
    SumInts([i \in 1..Len(problem.tasks) |->
                LET sol == problem_solution[1][problem.tasks[i].name]
                IN  IF r \in Range(sol.assigned_resources)
                    THEN Larger(0, Smaller(sol.end, hi) - Larger(sol.start, lo))
                    ELSE 0])

WorkAmountStaged ==
    {i \in 1..Len(solver.assertions) :
        LET c == solver.assertions[i]
        IN  /\ c[1] \in {">=", "<="}
            /\ \/ c[2][1] = "int"
               \/ c[2][1] = "sum" /\ c[2][2][1][1] = "*"}

\* C7: for every task with work_amount > 0 every returned Solution has the
\* sum, over the task's required resources, of productivity x (busy_upper -
\* busy_lower) >= work_amount; nothing is staged for a task with work_amount 0.
C7_WorkAmount ==
    /\ problem_solution # None =>
          \A i \in 1..Len(problem.tasks) :
              LET t == problem.tasks[i]
                  sol == problem_solution[1][t.name]
                  rr == t.required_resources
              IN  t.work_amount > 0 =>
                      SumInts([j \in 1..Len(rr) |->
                                  ResourceNamed(problem, rr[j]).productivity
                                      * (sol.end - sol.start)]) >= t.work_amount
    /\ solver.mode # "none" =>
          /\ Cardinality(WorkAmountStaged)
                = Cardinality({i \in 1..Len(problem.tasks) :
                                  problem.tasks[i].work_amount > 0})
          /\ \A i \in WorkAmountStaged : solver.assertions[i][1] = ">="

\* C7 witness: a Solution for a task whose work needs both of its workers.
C7_Witness ==
    /\ problem_solution # None
    /\ problem.tasks[1].work_amount = MaxWork
    /\ Len(problem.tasks[1].required_resources) = 2

\* A task that asks for work and has no resource to do it.
WorkWithoutResources ==
    \E i \in 1..Len(problem.tasks) :
        /\ problem.tasks[i].work_amount > 0
        /\ problem.tasks[i].required_resources = <<>>

\* C8: with a task of work_amount > 0 and no required resource, construction
\* raises nothing and solve() returns false through the verdict of the check
\* (no model exists), never through an exception.
C8_WorkWithoutResourcesUnsat ==
    WorkWithoutResources =>
        /\ raised = "none"
        /\ current_solution = None
        /\ problem_solution = None
        /\ solver.mode # "none" =>
              \E i \in 1..Len(solver.assertions) :
                  /\ VarsOf(solver.assertions[i]) = {}
                  /\ ~Holds(solver.assertions[i], <<>>)
        /\ op \in {"solve", "check_sat"} =>
              /\ ret = Some(FALSE)
              /\ sat_result \in {"unsat", "unknown"}
              /\ Count(calls, "check") = 1

\* C8 witness: solve() on such a problem, the engine answering unsat.
C8_Witness ==
    /\ WorkWithoutResources
    /\ op = "solve"
    /\ sat_result = "unsat"
    /\ ret = Some(FALSE)

\* C9: constructing a WorkLoad whose kind is none of exact, min, max raises
\* ValueError at once: nothing is registered with the problem under any
\* kind, no orchestrator exists yet and no check has run.
C9_InvalidKindRejected ==
    /\ (op = "WorkLoad" /\ calls[1][2].kind \notin WorkLoadKinds) =>
          /\ raised = "ValueError"
          /\ problem.workloads = <<>>
          /\ problem.constraints = <<Eq(Horizon, IntVal(problem.horizon))>>
          /\ solver = NoSolver
          /\ sat_result = "none"
          /\ current_solution = None
    /\ \A w \in 1..Len(problem.workloads) : problem.workloads[w].kind \in WorkLoadKinds

\* C9 witness: kind "foo" on a worker that a task requires.
C9_Witness ==
    /\ op = "WorkLoad"
    /\ raised = "ValueError"
    /\ calls[1][2].kind = "foo"
    /\ TasksOn(problem, calls[1][2].resource) # <<>>

\* C10: the engine is in optimization mode exactly when the problem has an
\* objective, and minimize / maximize are only ever invoked on an engine in
\* optimization mode.
C10_EngineMode ==
    solver.mode # "none" =>
        /\ solver.mode = "Optimize" <=> Len(problem.objectives) > 0
        /\ solver.objectives # <<>> => solver.mode = "Optimize"
        /\ op = "__init__" =>
              /\ raised = "none"
              /\ Count(calls, solver.mode) = 1
              /\ Count(calls, "minimize") + Count(calls, "maximize") > 0
                    => solver.mode = "Optimize"

\* C10 witness: an engine built for two objectives.
C10_Witness ==
    /\ op = "__init__"
    /\ solver.mode = "Optimize"
    /\ Len(solver.objectives) = 2

\* A max WorkLoad of bound 0 on candidate r of the task's selection, over an
\* interval that every placement of the task within 0..horizon overlaps.
BlockedCandidate(t, r) ==
    /\ IsCandidate(t, r)
    /\ \E w \in 1..Len(problem.workloads) :
          LET wl == problem.workloads[w]
          IN  /\ wl.resource = r
              /\ wl.kind = "max"
              /\ \E k \in 1..Len(wl.intervals) :
                    /\ wl.intervals[k][3] = 0
                    /\ t.duration > wl.intervals[k][1]
                    /\ wl.intervals[k][2] + t.duration > problem.horizon

MultipleWorkLoads(kind) ==
    problem.workloads = <<WorkLoadDecl("Worker1", 0, 4, 2, "max"),
                          WorkLoadDecl("Worker2", 2, 6, 2, kind)>>

Starts == {problem_solution[1][n].start : n \in TaskNames}

Where(f) == {i \in 1..Len(calls) : calls[i][1] = f}

\* C14: check_sat() invokes the engine's check exactly once and returns
\* false for unsat and for unknown, true otherwise; reason_unknown is
\* queried only when that check returned unknown; solve() (also within
\* find_another_solution) checks at most once and retrieves the model only
\* after its check_sat returned true.
C14_CheckOnceThenModel ==
    /\ op = "check_sat" =>
          /\ Count(calls, "check") = 1
          /\ ret = Some(sat_result \notin {"unsat", "unknown"})
          /\ Count(calls, "model") = 0
    /\ Count(calls, "reason_unknown") > 0 =>
          /\ sat_result = "unknown"
          /\ Count(calls, "reason_unknown") = 1
          /\ \A i \in Where("reason_unknown") : \E j \in Where("check") : j < i
    /\ op = "solve" => Count(calls, "check") = 1
    /\ op \in SolveOps =>
          /\ Count(calls, "check") <= 1
          /\ Count(calls, "model") <= Count(calls, "check")
          /\ \A i \in Where("model") :
                /\ \E j \in Where("check") : j < i
                /\ sat_result \notin {"unsat", "unknown"}
                /\ ret = Some(TRUE)
          /\ (Count(calls, "check") = 1 /\ sat_result \in {"unsat", "unknown"}) =>
                /\ Where("model") = {}
                /\ ret = Some(FALSE)

\* C14 witness: a verbose solve whose check said sat: check, the assertions
\* dump, then the model.
C14_Witness ==
    /\ op = "solve"
    /\ sat_result = "sat"
    /\ calls[1] = <<"check">>
    /\ calls[2] = <<"assertions">>
    /\ calls[3] = <<"model">>

\* The smallest and the greatest start of the problem's tasks in model m.
MinStart(m) ==
    CHOOSE x \in {m[problem.tasks[i].start] : i \in 1..Len(problem.tasks)} :
        \A i \in 1..Len(problem.tasks) : x <= m[problem.tasks[i].start]

MaxStart(m) ==
    CHOOSE x \in {m[problem.tasks[i].start] : i \in 1..Len(problem.tasks)} :
        \A i \in 1..Len(problem.tasks) : x >= m[problem.tasks[i].start]

\* Model m gives the auxiliary variables of the objectives their meaning.
AuxiliaryMeans(m) ==
    /\ "LATEST" \in Range(problem.objectives) => m["SmallestStartTime"] = MinStart(m)
    /\ "EARLIEST" \in Range(problem.objectives) => m["GreatestStartTime"] = MaxStart(m)

\* C15: with objective LATEST the auxiliary variable SmallestStartTime is
\* the minimum of all task starts, and with EARLIEST GreatestStartTime is
\* their maximum, in every model of the staged constraints and so in every
\* model retained, for a non-empty task set.
C15_AuxiliaryIsExtremeStart ==
    /\ (op = "__init__" /\ raised = "none" /\ problem.tasks # <<>>) =>
          \A m \in SatModels(solver.assertions) : AuxiliaryMeans(m)
    /\ (current_solution # None /\ problem.tasks # <<>>) =>
          AuxiliaryMeans(current_solution[1])

\* C15 witness: a retained model for LATEST in which the two starts differ.
C15_Witness ==
    /\ current_solution # None
    /\ "LATEST" \in Range(problem.objectives)
    /\ Len(problem.tasks) = 2
    /\ current_solution[1]["task1_start"] > current_solution[1]["task2_start"]
    /\ current_solution[1]["SmallestStartTime"] = current_solution[1]["task2_start"]

\* The values of variable v that the constraints A still allow.
Allowed(v, A) == {m[v] : m \in SatModels(A)}

\* C16: each find_another_solution(v) made while a model is retained
\* strictly shrinks the set of values of v that the staged constraints
\* allow, also when it follows a find_another_solution that returned false.
C16_EachCallShrinks ==
    [][(op' = "find_another_solution" /\ Len(excluded') = Len(excluded) + 1) =>
          LET v == excluded'[Len(excluded')][1]
          IN  /\ Allowed(v, solver'.assertions) \subseteq Allowed(v, solver.assertions)
              /\ Allowed(v, solver'.assertions) # Allowed(v, solver.assertions)]_vars

\* What the constructor staged, in order: the add, minimize and maximize calls.
StagedCalls == SelectSeq(calls, LAMBDA call : IsAdd(call) \/ IsObjective(call))

\* The objective a staged call belongs to, "" for a call of no objective.
ObjectiveOf(call) ==
    IF call[1] \in {"minimize", "maximize"} /\ call[2] = Horizon THEN "MAKESPAN"
    ELSE LET vs == IF IsAdd(call) THEN VarsOf(call[2]) ELSE VarsOfExpr(call[2])
         IN  IF "SmallestStartTime" \in vs THEN "LATEST"
             ELSE IF "FlowTime" \in vs THEN "FLOWTIME"
             ELSE IF "GreatestStartTime" \in vs THEN "EARLIEST"
             ELSE ""

IsWorkLoadAssertion(c) ==
    \E w \in 1..Len(problem.workloads) :
        c \in Range(WorkLoadAssertions(problem, problem.workloads[w]))

\* The step of the construction a staged call belongs to, the WorkLoad
\* constraints being step workload: 2i - 1 and 2i for the definitional
\* constraints and the default bounds of task i, then the user-declared
\* constraints, resource j, the work amounts, and objective k.
StepOf(call, workload) ==
    LET c == call[2]
        n == Len(problem.tasks)
        r == Len(problem.resources)
        of == ObjectiveOf(call)
    IN  IF of # ""
        THEN 2 * n + r + 3
             + (CHOOSE k \in 1..Len(problem.objectives) : problem.objectives[k] = of)
        ELSE IF \E i \in 1..n : c \in Range(TaskAssertions(problem.tasks[i]))
        THEN 2 * (CHOOSE i \in 1..n : c \in Range(TaskAssertions(problem.tasks[i]))) - 1
        ELSE IF \E i \in 1..n : c \in Range(TaskBounds(problem.tasks[i]))
        THEN 2 * (CHOOSE i \in 1..n : c \in Range(TaskBounds(problem.tasks[i])))
        ELSE IF IsWorkLoadAssertion(c)
        THEN workload
        ELSE IF c \in Range(problem.constraints)
        THEN 2 * n + 1
        ELSE IF \E j \in 1..r : c \in Range(ResourceAssertions(problem, problem.resources[j]))
        THEN 2 * n + 1
             + (CHOOSE j \in 1..r :
                    c \in Range(ResourceAssertions(problem, problem.resources[j])))
        ELSE 2 * n + r + 2

\* The staged calls follow the steps in order, WorkLoad being step workload.
InStepOrder(workload) ==
    \A i \in 1..(Len(StagedCalls) - 1) :
        StepOf(StagedCalls[i], workload) <= StepOf(StagedCalls[i + 1], workload)

C18_AssertionsOnlyGrow ==
    [][solver.mode # "none" =>
          /\ solver'.mode = solver.mode
          /\ solver'.objectives = solver.objectives
          /\ Len(solver'.assertions) >= Len(solver.assertions)
          /\ SubSeq(solver'.assertions, 1, Len(solver.assertions)) = solver.assertions
          /\ op' \in {"check_sat", "solve", "export_to_smt2"} =>
                solver'.assertions = solver.assertions
          /\ op' \in {"check_sat", "export_to_smt2"} =>
                /\ current_solution' = current_solution
                /\ problem_solution' = problem_solution
          /\ op' = "find_another_solution" =>
                IF current_solution # None /\ raised' = "none"
                THEN \E v \in diversify \cap DOMAIN current_solution[1] :
                        /\ solver'.assertions
                              = Append(solver.assertions,
                                       <<"!=", <<"var", v>>,
                                         <<"int", current_solution[1][v]>>>>)
                        /\ Count(calls', "add") = 1
                ELSE solver'.assertions = solver.assertions]_vars

\* C18 witness: the solve within find_another_solution failed and the
\* disequality it added is still the engine's last assertion.
C18_Witness ==
    /\ op = "find_another_solution"
    /\ ret = Some(FALSE)
    /\ sat_result = "unsat"
    /\ Len(excluded) = 1
    /\ solver.assertions[Len(solver.assertions)]
          = <<"!=", <<"var", excluded[1][1]>>, <<"int", excluded[1][2]>>>>

\* The retained model with the starts and ends that the problem's Solution holds.
SolutionModel ==
    [x \in DOMAIN current_solution[1] |->
        IF \E n \in TaskNames : x = n \o "_start"
        THEN problem_solution[1][CHOOSE n \in TaskNames : x = n \o "_start"].start
        ELSE IF \E n \in TaskNames : x = n \o "_end"
        THEN problem_solution[1][CHOOSE n \in TaskNames : x = n \o "_end"].end
        ELSE current_solution[1][x]]

\* C19: in every state reached by solve() and find_another_solution() calls
\* the retained current_solution, when set, and the Solution held by the
\* problem satisfy every constraint staged in the engine, also after a
\* find_another_solution that returned false.
C19_RetainedSatisfiesStaged ==
    current_solution # None =>
        \A i \in 1..Len(solver.assertions) :
            /\ Holds(solver.assertions[i], current_solution[1])
            /\ problem_solution # None => Holds(solver.assertions[i], SolutionModel)

\* The options a check of the engine can run under: verbose is read from the
\* process-wide options when the check runs; timeout and parallel.enable
\* from them as well, or from what they were when the engine was created.
InEffect ==
    {[verbose |-> z3_options.verbose, timeout |-> o.timeout,
      parallel_enable |-> o.parallel_enable] : o \in {z3_options, solver.params}}

\* C20: the checks of an orchestrator run under the configuration it was
\* constructed with: the timeout in effect is its max_time x 1000 ms, and
\* parallel search and verbose output are enabled only if it was constructed
\* with parallel / verbosity true, whatever other orchestrators were
\* constructed before the check.
C20_OwnConfiguration ==
    (op \in {"check_sat", "solve", "find_another_solution"} /\ Count(calls, "check") = 1) =>
        \A e \in InEffect :
            /\ e.timeout = cfg.max_time * 1000
            /\ e.parallel_enable => cfg.parallel
            /\ e.verbose > 0 => cfg.verbosity
====
